---- MODULE Spec2Model ----
(***************************************************************************)
(* fl-wspr: WSPR transmitter for FL2000 adapters (dithered, three-channel  *)
(* emitter).  The model follows main(), tx_init(), tx_hz_to_freq() and     *)
(* tx_callback() of the dithered transmitter source.                       *)
(*                                                                         *)
(* Machine words are scaled so that TLC can enumerate them: WordBits       *)
(* stands for the 64 bits of uint64_t, RndBits for the 32 bits of          *)
(* uint32_t / unsigned, DitherBits for the 8 bits of the 0xFF mask and     *)
(* SINE_SHIFT for the table's index width.  All arithmetic wraps at the    *)
(* scaled width exactly where the C code wraps at the real width.          *)
(***************************************************************************)
EXTENDS Integers, Sequences, FiniteSets, TLC

VARIABLES
    pc,        \* position of main(): "parse", "validate", "open", "start_tx", "set_rate", "init", "tx_init", "running", "done"
    argv,      \* command line, a sequence of <<parameter, value>> pairs
    conf,      \* struct configuration conf1
    fl,        \* fl2k_dev_t *fl: "null" or "open"
    streaming, \* the device layer is invoking the registered callback
    dev,       \* device layer: what fl2k_open, fl2k_start_tx, fl2k_set_sample_rate and fl2k_get_sample_rate answer
    tx,        \* struct transmitter tx1
    fldata,    \* fl2k_data_info_t handed to the last callback, as the callback left it
    h,         \* history: what the emitter has done so far
    calc,      \* one function of the emitter applied on its own: its name, arguments and results
    written    \* the members of tx1 whose store by tx_init has reached the memory the callback reads

vars == <<pc, argv, conf, fl, streaming, dev, tx, fldata, h, calc, written>>

----------------------------------------------------------------------------
(* Bounds of the model *)

\* width of uint64_t in the model (64 in the source)
WordBits == 6
\* FL2K_BUF_LEN of osmo-fl2k.h, the negotiated buffer size in samples
FL2K_BUF_LEN == 7
\* log2 of the sine table size in the model (10 in the source)
SINE_SHIFT == 2
\* transmissions observed beyond one full rotation of the frequency list
MaxTx == 1

(* Program constants *)
WSPR_LEN == 162
MAX_FREQS == 16
\* low 16 bits of the multiplier 6364136223846793005: the product modulo
\* 2^WordBits depends on no higher bit
LCG_MUL == 32557
OUT_BIAS == 32512
IDLE_CODE == 128
CHAR_ZERO == 48
WSPR_PERIOD == 120
WSPR_SECOND == 1
PPM_DEFAULT == 143
FS_DEFAULT == 100000000
MILLION == 1000000
HALF_TURN_DEG == 180
DITHER_MASK == 255

RECURSIVE Pow2(_)
Pow2(n) == IF n <= 0 THEN 1 ELSE 2 * Pow2(n - 1)

\* 2^64 in the model
WORD == Pow2(WordBits)
\* width of uint32_t and unsigned: half a word
RndBits == WordBits \div 2
UINT32 == Pow2(RndBits)
\* width of a double's significand in the model (53 in the source, 11 bits
\* short of a word)
DoubleBits == WordBits - 1
\* width of one amplitude-dither field (8 of 32 bits in the source)
DitherBits == IF RndBits \div 3 > 0 THEN RndBits \div 3 ELSE 1
SINE_SIZE == Pow2(SINE_SHIFT)
\* the symbol rate 12000.0 / 8192 Hz as numerator and denominator
SymbolRate == <<12000, 8192>>

----------------------------------------------------------------------------
(* Arithmetic helpers *)

RECURSIVE Gcd(_, _)
Gcd(a, b) == IF b = 0 THEN a ELSE Gcd(b, a % b)

\* a rational <<n, d>> in lowest terms, d > 0
Reduce(q) ==
    LET g == Gcd(IF q[1] < 0 THEN -q[1] ELSE q[1], q[2])
    IN  IF g = 0 THEN q ELSE <<q[1] \div g, q[2] \div g>>

\* x * 2^a and y * 2^b with 2^(DoubleBits-1) <= (x * 2^a) / (y * 2^b) < 2^DoubleBits:
\* the quotient x / y scaled to the range of a double's significand
RECURSIVE Normalize(_, _)
Normalize(x, y) ==
    IF x < y * Pow2(DoubleBits - 1) THEN Normalize(2 * x, y)
    ELSE IF x >= y * Pow2(DoubleBits) THEN Normalize(x, 2 * y)
    ELSE <<x, y>>

\* x / y rounded to the nearest integer, ties to even
RoundHalfEven(x, y) ==
    LET q == x \div y
        r == 2 * (x % y)
    IN  IF r > y \/ (r = y /\ q % 2 = 1) THEN q + 1 ELSE q

\* the double nearest to x / y, for x >= 0 and y > 0, as a rational <<n, d>>
DoubleDiv(x, y) ==
    IF x = 0 THEN <<0, 1>>
    ELSE LET n == Normalize(x, y)
         IN  <<RoundHalfEven(n[1], n[2]) * (n[2] \div y), n[1] \div x>>

\* the low `bits` bits of x shifted left by n, in a register of `bits` bits
ShiftLeft(x, n, bits) == (x * Pow2(n)) % Pow2(bits)
ShiftRight(x, n) == x \div Pow2(n)

\* sin(6.283185307179586 * i / 16) * 0x7EFF truncated to int16_t
Sine16 ==
    <<0, 12441, 22988, 30036, 32511, 30036, 22988, 12441,
      0, -12441, -22988, -30036, -32511, -30036, -22988, -12441>>

----------------------------------------------------------------------------
(* struct configuration, struct transmitter, the command line *)

\* struct configuration conf1 = { .id = 0, .fs = 100e6, .ppm = 143.0, .nf = 0, .s = "", ... }
ConfInit ==
    [id |-> 0, fs |-> FS_DEFAULT, fs_exact |-> <<0, 1>>, ppm |-> PPM_DEFAULT,
     p1 |-> 0, p2 |-> 0, s |-> <<>>, ps |-> 0, nf |-> 0, f |-> <<>>]

\* struct transmitter tx1 = { .initialized = 0 }: every member zero
TxZero ==
    [fs |-> <<0, 1>>, initialized |-> 0, wspr_on |-> 0, ps |-> 0, buf |-> <<>>,
     phase |-> 0, freq |-> 0, phs1 |-> 0, phs2 |-> 0, lcg |-> 0,
     wspr_symphase |-> 0, wspr_freqs |-> [i \in 0..(MAX_FREQS - 1) |-> 0],
     wspr_freq |-> 0, wspr_step |-> 0, wspr_i |-> 0, wspr_nfreqs |-> 0,
     wspr_freq_i |-> 0, wspr_data |-> <<>>, sine |-> [i \in 0..(SINE_SIZE - 1) |-> 0]]

\* the fl2k_data_info_t the device layer hands to a callback: no buffer set yet
FlDataInit == [len |-> 0, sampletype_signed |-> 1, r_buf |-> -1, g_buf |-> -1, b_buf |-> -1]

\* conf->ps is a char: atoi's value is cut to 8 bits, signed
ToChar(v) == LET m == v % 256 IN IF m >= 128 THEN m - 256 ELSE m

\* one step of the parameter loop of main: parameter p with value v
ParseArg(c, p, v) ==
    CASE p = "id"  -> [c EXCEPT !.id = v]
      [] p = "fs"  -> [c EXCEPT !.fs = v]
      [] p = "ppm" -> [c EXCEPT !.ppm = v]
      [] p = "p1"  -> [c EXCEPT !.p1 = v]
      [] p = "p2"  -> [c EXCEPT !.p2 = v]
      [] p = "ps"  -> [c EXCEPT !.ps = ToChar(v)]
      [] p = "s"   -> [c EXCEPT !.s = v]
      [] p = "f"   -> IF c.nf < MAX_FREQS
                      THEN [c EXCEPT !.f = Append(c.f, v), !.nf = c.nf + 1]
                      ELSE c
      [] OTHER     -> c

KnownParams == {"id", "fs", "ppm", "p1", "p2", "ps", "s", "f"}

\* the parameter loop: the configuration after the first n parameters, and
\* whether the loop left through FAIL("Unknown configuration parameter")
RECURSIVE ParseArgs(_, _, _)
ParseArgs(c, args, i) ==
    IF i > Len(args) THEN [conf |-> c, unknown |-> FALSE]
    ELSE IF args[i][1] \notin KnownParams THEN [conf |-> c, unknown |-> TRUE]
    ELSE ParseArgs(ParseArg(c, args[i][1], args[i][2]), args, i + 1)

\* a check that forgets the empty frequency list
ConfRejected_LengthOnly(c) == Len(c.s) # WSPR_LEN

\* the two checks after the loop: strlen(conf->s) != WSPR_LEN, conf->nf == 0
ConfRejected(c) == Len(c.s) # WSPR_LEN \/ c.nf = 0

----------------------------------------------------------------------------
(* tx_hz_to_freq and tx_init *)

\* a conversion that scales by 2^63 only
tx_hz_to_freq_Half(fs, hz) ==
    LET a == Reduce(hz)
        b == Reduce(fs)
        q == DoubleDiv(a[1] * b[2], a[2] * b[1])
    IN  ((q[1] * (WORD \div 2)) \div q[2]) % WORD

\* hz / fs rounded to a double, times 2^64 (exact), converted to uint64_t;
\* hz and fs are the doubles' values as rationals, hz < fs
tx_hz_to_freq(fs, hz) ==
    LET a == Reduce(hz)
        b == Reduce(fs)
        q == DoubleDiv(a[1] * b[2], a[2] * b[1])
    IN  ((q[1] * WORD) \div q[2]) % WORD

\* a table scaled to the full int16_t range, 0x7FFF
SineEntry_FullScale(i) ==
    <<0, 12539, 23170, 30273, 32767, 30273, 23170, 12539,
      0, -12539, -23170, -30273, -32767, -30273, -23170, -12539>>[((i * 16) \div SINE_SIZE) + 1]

\* sin(6.283185307179586 * i / SINE_SIZE) * 0x7EFF as int16_t
SineEntry(i) == Sine16[((i * 16) \div SINE_SIZE) + 1]

\* degrees * ((double)(1ULL<<63) / 180.0) converted to uint64_t
DegToPhase(d) == ((d * (WORD \div 2)) \div HALF_TURN_DEG) % WORD

\* (1.0 + 1e-6 * ppm) * fs_r
FsExact(ppm, fs_r) == Reduce(<<(MILLION + ppm) * fs_r, MILLION>>)

tx_init(t, c) ==
    LET fs == c.fs_exact
    IN  [t EXCEPT
          !.sine = [i \in 0..(SINE_SIZE - 1) |-> SineEntry(i)],
          !.fs = fs,
          !.buf = [i \in 0..(3 * FL2K_BUF_LEN - 1) |-> -1],
          !.wspr_on = 0,
          !.wspr_data = c.s,
          !.wspr_step = tx_hz_to_freq(fs, SymbolRate),
          !.wspr_freqs = [i \in 0..(MAX_FREQS - 1) |->
                             IF i < c.nf THEN tx_hz_to_freq(fs, c.f[i + 1])
                             ELSE t.wspr_freqs[i]],
          !.wspr_nfreqs = c.nf,
          !.phs1 = DegToPhase(c.p1),
          !.phs2 = DegToPhase(c.p2),
          !.ps = c.ps,
          !.initialized = 1]

\* the members tx_init stores to
InitStores ==
    {"sine", "fs", "buf", "wspr_on", "wspr_data", "wspr_step", "wspr_freqs",
     "wspr_nfreqs", "phs1", "phs2", "ps", "initialized"}

----------------------------------------------------------------------------
(* tx_callback *)

\* a value cut to int16_t
ToInt16(v) == LET m == v % 65536 IN IF m >= 32768 THEN m - 65536 ELSE m

\* (uint16_t)(0x7F00 + out) >> 8, stored through an int8_t pointer and read
\* by the device as an unsigned byte
Quantize(out) == (((OUT_BIAS + out) % 65536) \div 256) % 256

\* wspr_data[k]: the k-th character of the string, the terminating NUL at its end
CharAt(s, k) == IF k < Len(s) THEN s[k + 1] ELSE 0

\* (tx->wspr_data[0] - '0') as the int that multiplies a uint64_t
SymbolAtStart(s) == (CharAt(s, 0) - CHAR_ZERO) % WORD

\* unsigned s = tx->wspr_data[tx->wspr_i] - '0'
SymbolAt(s, k) == (CharAt(s, k) - CHAR_ZERO) % UINT32

\* a start test that forgets the wspr_on flag
StartCondition_IgnoresActive(t, sec) == (sec % WSPR_PERIOD) = WSPR_SECOND

\* !tx->wspr_on && (tp.tv_sec % 120) == 1
StartCondition(t, sec) == t.wspr_on = 0 /\ (sec % WSPR_PERIOD) = WSPR_SECOND

\* a band advance that forgets the modulo
NextBand_NoWrap(t) == t.wspr_freq_i + 1

\* (tx->wspr_freq_i + 1) % tx->wspr_nfreqs; with a divisor of 0, which only a
\* callback racing with tx_init can meet, the remainder of a division that
\* does not trap (udiv and msub of AArch64): the dividend
NextBand(t) ==
    IF t.wspr_nfreqs = 0 THEN t.wspr_freq_i + 1
    ELSE (t.wspr_freq_i + 1) % t.wspr_nfreqs

\* a swap that forgets the ps flag
SwapShifts_Always(t) == <<t.phs2, t.phs1>>

\* if (tx->ps == 1) { p = phs1; phs1 = phs2; phs2 = p; }: phs1 and phs2 after it
SwapShifts(t) == IF t.ps = 1 THEN <<t.phs2, t.phs1>> ELSE <<t.phs1, t.phs2>>

\* a start that leaves the oscillator phase where the last transmission ended
StartTransmission_KeepsPhase(t) ==
    [t EXCEPT
      !.wspr_i = 0,
      !.wspr_symphase = 0,
      !.wspr_freq = t.wspr_freqs[t.wspr_freq_i],
      !.freq = (t.wspr_freqs[t.wspr_freq_i] + t.wspr_step * SymbolAtStart(t.wspr_data)) % WORD,
      !.wspr_freq_i = NextBand(t),
      !.phs1 = SwapShifts(t)[1],
      !.phs2 = SwapShifts(t)[2],
      !.wspr_on = 1]

\* the body of "Start WSPR transmission"
StartTransmission(t) ==
    LET base == t.wspr_freqs[t.wspr_freq_i]
    IN  [t EXCEPT
          !.wspr_i = 0,
          !.wspr_symphase = 0,
          !.phase = 0,
          !.wspr_freq = base,
          !.freq = (base + t.wspr_step * SymbolAtStart(t.wspr_data)) % WORD,
          !.wspr_freq_i = NextBand(t),
          !.phs1 = SwapShifts(t)[1],
          !.phs2 = SwapShifts(t)[2],
          !.wspr_on = 1]

\* lcg = lcg * 6364136223846793005ULL + 1
LcgNext(lcg) == (lcg * LCG_MUL + 1) % WORD

\* uint32_t rnd = lcg >> 32
RndOf(lcg) == ShiftRight(lcg, WordBits - RndBits) % UINT32

\* rnd << (64-32-SINE_SHIFT), computed in the 32 bits of rnd
PhaseDither(rnd) == ShiftLeft(rnd, WordBits - RndBits - SINE_SHIFT, RndBits)

\* 0xFF & rnd >> (8 * ch)
AmpDither(rnd, ch) == ShiftRight(rnd, DitherBits * ch) % Pow2(DitherBits)

\* tx->sine[p >> (64-SINE_SHIFT)]
SineAt(t, p) == t.sine[ShiftRight(p % WORD, WordBits - SINE_SHIFT)]

\* the three codes of one transmitted sample
TxCodes(t, phase, rnd) ==
    LET ph == (phase + PhaseDither(rnd)) % WORD
        out0 == ToInt16(SineAt(t, ph) + AmpDither(rnd, 0))
        out1 == ToInt16(SineAt(t, ph + t.phs1) + AmpDither(rnd, 1))
        out2 == ToInt16(SineAt(t, ph + t.phs2) + AmpDither(rnd, 2))
    IN  <<Quantize(out0), Quantize(out1), Quantize(out2)>>

\* b[0], b[FL2K_BUF_LEN], b[FL2K_BUF_LEN*2] = codes, at sample position i
StoreCodes(buf, i, codes) ==
    [k \in DOMAIN buf |->
        IF k = i THEN codes[1]
        ELSE IF k = FL2K_BUF_LEN + i THEN codes[2]
        ELSE IF k = 2 * FL2K_BUF_LEN + i THEN codes[3]
        ELSE buf[k]]

\* a symbol phase that restarts from 0 at every symbol boundary
SymphaseNext_Reset(sp, step) == IF sp + step >= WORD THEN 0 ELSE sp + step

\* wspr_symphase = sp + wspr_step
SymphaseNext(sp, step) == (sp + step) % WORD

\* a wrap test that also fires when the phase stands still
SymbolWrapped_LessEq(sp, step) == SymphaseNext(sp, step) <= sp

\* a wrap test on the sum computed without wrapping
SymbolWrapped_Wide(sp, step) == sp + step < sp

\* (wspr_symphase = sp + wspr_step) < sp
SymbolWrapped(sp, step) == SymphaseNext(sp, step) < sp

\* the idle code of a signed sample stream
IdleCodes_Signed == <<0, 0, 0>>

\* b[0] = b[FL2K_BUF_LEN] = b[FL2K_BUF_LEN*2] = 0x80
IdleCodes == <<IDLE_CODE, IDLE_CODE, IDLE_CODE>>

\* an end test that is never false
MoreSymbols_Always(i) == TRUE

\* an end test on the index before its increment
MoreSymbols_Late(i) == i < WSPR_LEN

\* an off-by-one end test
MoreSymbols_OffByOne(i) == i + 1 <= WSPR_LEN

\* ++tx->wspr_i < WSPR_LEN
MoreSymbols(i) == i + 1 < WSPR_LEN

\* the history counter of transmitted samples stops counting one sample past
\* 163 symbol periods, where no transmission of 162 symbols can be
SampleCap(step) ==
    IF step = 0 THEN 0 ELSE (((WSPR_LEN + 1) * WORD) \div step) + 1

\* an idle sample that lets the oscillator run on
IdleSample_Advances(st, lcg, i) ==
    [st EXCEPT
      !.lcg = lcg,
      !.tx_phase = (st.tx_phase + st.tx_freq) % WORD,
      !.buf = StoreCodes(st.buf, i, IdleCodes),
      !.modes = Append(st.modes, 0)]

\* the else branch of if (wspr_on), after the generator has been advanced to lcg
IdleSample(st, lcg, i) ==
    [st EXCEPT
      !.lcg = lcg,
      !.buf = StoreCodes(st.buf, i, IdleCodes),
      !.modes = Append(st.modes, 0)]

\* one pass of the sample loop at position i.  st holds the local copies
\* (tx_phase, tx_freq, wspr_symphase, lcg, wspr_on), tx->wspr_i, the buffer,
\* the history counters nsym (symbol advances), ntxs (transmitted samples),
\* modes (per position of this buffer: 1 transmitted, 0 idle) and phsum (the
\* sum modulo 2^64 of the tx_freq in force at each transmitted sample), and
\* maxrd (the largest index at which wspr_data has been read, -1 for none).
SampleStep(t, st, i) ==
    LET lcg == LcgNext(st.lcg)
        rnd == RndOf(lcg)
    IN  IF st.wspr_on # 0
        THEN LET phase == (st.tx_phase + st.tx_freq) % WORD
                 sp == st.wspr_symphase
                 wrapped == SymbolWrapped(sp, t.wspr_step)
                 more == MoreSymbols(st.wspr_i)
             IN  [st EXCEPT
                   !.lcg = lcg,
                   !.tx_phase = phase,
                   !.buf = StoreCodes(st.buf, i, TxCodes(t, phase, rnd)),
                   !.wspr_symphase = SymphaseNext(sp, t.wspr_step),
                   !.wspr_i = IF wrapped THEN st.wspr_i + 1 ELSE st.wspr_i,
                   !.tx_freq = IF wrapped /\ more
                               THEN (t.wspr_freq + t.wspr_step * SymbolAt(t.wspr_data, st.wspr_i + 1)) % WORD
                               ELSE st.tx_freq,
                   !.wspr_on = IF wrapped /\ ~more THEN 0 ELSE st.wspr_on,
                   !.nsym = IF wrapped THEN st.nsym + 1 ELSE st.nsym,
                   !.ntxs = IF st.ntxs < SampleCap(t.wspr_step) THEN st.ntxs + 1 ELSE st.ntxs,
                   !.phsum = (st.phsum + st.tx_freq) % WORD,
                   !.maxrd = IF wrapped /\ more /\ st.wspr_i + 1 > st.maxrd
                             THEN st.wspr_i + 1 ELSE st.maxrd,
                   !.modes = Append(st.modes, 1)]
        ELSE IdleSample(st, lcg, i)

\* for (i = 0; i < FL2K_BUF_LEN; i++)
RECURSIVE SampleLoop(_, _, _)
SampleLoop(t, st, i) ==
    IF i >= FL2K_BUF_LEN THEN st
    ELSE CHOOSE r \in {SampleLoop(t, s, i + 1) : s \in {SampleStep(t, st, i)}} : TRUE

\* a write-back that forgets the oscillator phase
WriteBack_DropsPhase(t, st) ==
    [t EXCEPT !.freq = st.tx_freq, !.lcg = st.lcg,
              !.wspr_symphase = st.wspr_symphase, !.wspr_on = st.wspr_on,
              !.wspr_i = st.wspr_i, !.buf = st.buf]

\* a write-back that leaves tx->wspr_on as it was
WriteBack_KeepsOn(t, st) ==
    [t EXCEPT !.phase = st.tx_phase, !.freq = st.tx_freq, !.lcg = st.lcg,
              !.wspr_symphase = st.wspr_symphase, !.wspr_i = st.wspr_i, !.buf = st.buf]

\* tx->phase = tx_phase; ...; tx->wspr_on = wspr_on, after the loop (wspr_i
\* and the buffer were written in place)
WriteBack(t, st) ==
    [t EXCEPT !.phase = st.tx_phase, !.freq = st.tx_freq, !.lcg = st.lcg,
              !.wspr_symphase = st.wspr_symphase, !.wspr_on = st.wspr_on,
              !.wspr_i = st.wspr_i, !.buf = st.buf]

\* the one early return of the emitter that fills whatever count is asked
Rejected_InitOnly(t, len) == t.initialized = 0

\* the two early returns
Rejected(t, len) == t.initialized = 0 \/ len # FL2K_BUF_LEN

\* what the sample loop finds at its entry: the local copies and the members
\* it reads in place
LoopEntry(t) ==
    [phase |-> t.phase, freq |-> t.freq, wspr_symphase |-> t.wspr_symphase,
     wspr_i |-> t.wspr_i, wspr_on |-> t.wspr_on, wspr_freq |-> t.wspr_freq,
     wspr_freq_i |-> t.wspr_freq_i]

\* tx_callback on an accepted call at wall-clock second sec: the transmitter
\* after the call, the history counters and what the sample loop found at
\* its entry
tx_callback(t, hist, sec) ==
    LET start == StartCondition(t, sec)
        t1 == IF start THEN StartTransmission(t) ELSE t
        st0 == [tx_phase |-> t1.phase, tx_freq |-> t1.freq,
                wspr_symphase |-> t1.wspr_symphase, lcg |-> t1.lcg,
                wspr_on |-> t1.wspr_on, wspr_i |-> t1.wspr_i, buf |-> t1.buf,
                nsym |-> IF start THEN 0 ELSE hist.nsym,
                ntxs |-> IF start THEN 0 ELSE hist.ntxs,
                phsum |-> IF start THEN 0 ELSE hist.phsum,
                maxrd |-> IF start /\ hist.maxrd < 0 THEN 0 ELSE hist.maxrd,
                modes |-> <<>>]
        st == SampleLoop(t1, st0, 0)
    IN  [tx |-> WriteBack(t1, st),
         started |-> start, nsym |-> st.nsym, ntxs |-> st.ntxs, phsum |-> st.phsum,
         maxrd |-> st.maxrd,
         modes |-> st.modes, entry |-> LoopEntry(t1)]

\* one sample of the emitter that keeps no local copies: every update goes
\* to the struct at once.  Only the oscillator and the symbol scheduler.
DirectSample(t) ==
    IF t.wspr_on # 0
    THEN LET sp == t.wspr_symphase
             wrapped == SymbolWrapped(sp, t.wspr_step)
             more == MoreSymbols(t.wspr_i)
         IN  [t EXCEPT
               !.phase = (t.phase + t.freq) % WORD,
               !.wspr_symphase = SymphaseNext(sp, t.wspr_step),
               !.wspr_i = IF wrapped THEN t.wspr_i + 1 ELSE t.wspr_i,
               !.freq = IF wrapped /\ more
                        THEN (t.wspr_freq + t.wspr_step * SymbolAt(t.wspr_data, t.wspr_i + 1)) % WORD
                        ELSE t.freq,
               !.wspr_on = IF wrapped /\ ~more THEN 0 ELSE t.wspr_on]
    ELSE t

\* for (i = 0; i < bl; i++) of that emitter, n samples
RECURSIVE DirectLoop(_, _)
DirectLoop(t, n) ==
    IF n = 0 THEN t
    ELSE CHOOSE r \in {DirectLoop(s, n - 1) : s \in {DirectSample(t)}} : TRUE

----------------------------------------------------------------------------
(* Inputs: command lines and device layers *)

\* the symbol values of the 162-symbol WSPR message wspr_oh2ehk
WsprSymbols ==
    <<3,1,0,2,2,0,0,0,3,0,0,2,1,3,1,2,0,2,1,0,2,3,0,3,1,3,3,2,0,2,2,0,2,0,3,0,
      0,1,2,1,2,0,0,2,0,0,1,2,3,1,2,2,3,3,2,1,0,2,2,3,3,2,3,2,0,0,2,3,1,0,3,2,
      1,2,1,2,1,2,0,1,2,0,3,2,3,1,2,0,2,1,3,0,1,0,1,0,0,2,3,2,0,0,2,0,1,0,0,3,
      0,2,1,1,3,2,1,1,0,0,3,3,0,1,0,0,0,1,1,3,2,2,0,0,2,3,2,1,0,0,3,1,0,0,0,0,
      2,2,0,1,1,0,3,0,1,1,0,0,0,1,1,0,2,0>>

\* a symbol string of n characters: the message, repeated when n is larger
SymbolString(n) ==
    [k \in 1..n |-> CHAR_ZERO + WsprSymbols[((k - 1) % Len(WsprSymbols)) + 1]]

\* the j-th center frequency given on the command line, j/16 Hz
FreqArg(j) == <<j, 16>>

\* fl-wspr f .. f .. ppm .. p1 .. p2 .. ps .. s .. [x ..]
MkArgv(sc) ==
    [j \in 1..sc.nf |-> <<"f", FreqArg(j)>>]
    \o <<<<"ppm", sc.ppm>>, <<"p1", sc.p1>>, <<"p2", sc.p2>>, <<"ps", sc.ps>>,
         <<"s", SymbolString(sc.slen)>>>>
    \o (IF sc.junk THEN <<<<"x", 0>>>> ELSE <<>>)

Scenario(nf, slen, ps, ppm, junk, rate, badlen) ==
    [nf |-> nf, slen |-> slen, ps |-> ps, p1 |-> 120, p2 |-> 240, ppm |-> ppm,
     junk |-> junk, rate |-> rate, badlen |-> badlen]

\* what one run is given: the command line and the device layer's answers
Input(sc) ==
    [argv |-> MkArgv(sc),
     dev |-> [rate |-> sc.rate,
              lens |-> IF sc.badlen THEN {FL2K_BUF_LEN - 1, FL2K_BUF_LEN}
                       ELSE {FL2K_BUF_LEN}]]

\* fl-wspr without parameters
NoArgs == [argv |-> <<>>, dev |-> [rate |-> 2, lens |-> {FL2K_BUF_LEN}]]

\* command lines that main rejects
BadInputs ==
    {Input(Scenario(nf, slen, 0, 0, junk, 2, FALSE)) :
        nf \in {0, 1}, slen \in {WSPR_LEN - 1, WSPR_LEN, WSPR_LEN + 1},
        junk \in BOOLEAN} \ {Input(Scenario(1, WSPR_LEN, 0, 0, FALSE, 2, FALSE))}

\* runs with one frequency at several sample rates: symbol steps of about
\* 0.72, 0.97 and 0.5 turns per sample
RunInputs ==
    {Input(Scenario(1, WSPR_LEN, 0, 0, FALSE, 2, FALSE)),
     Input(Scenario(1, WSPR_LEN, 1, -500000, FALSE, 3, TRUE)),
     Input(Scenario(1, WSPR_LEN, 0, 450000, FALSE, 2, FALSE))}

\* runs that rotate through 1, 2, 3 and 16 frequencies, the last one given
\* 17 on the command line
BandInputs ==
    {Input(Scenario(nf, WSPR_LEN, 1, -500000, FALSE, 3, FALSE)) :
        nf \in {1, 2, 3, MAX_FREQS + 1}}
    \cup {Input(Scenario(0, WSPR_LEN, 0, 0, FALSE, 2, FALSE))}

\* one run at a symbol step of about 0.97 turns per sample, one command line
\* that main rejects
LiveInputs ==
    {Input(Scenario(1, WSPR_LEN, 1, -500000, FALSE, 3, FALSE)),
     Input(Scenario(0, WSPR_LEN, 0, 0, FALSE, 2, FALSE))}

\* the input in with every character a of its symbol string replaced by c
WithSymbol(in, a, c) ==
    [in EXCEPT !.argv = [i \in DOMAIN in.argv |->
        IF in.argv[i][1] = "s"
        THEN <<"s", [k \in DOMAIN in.argv[i][2] |->
                        IF in.argv[i][2][k] = a THEN c ELSE in.argv[i][2][k]]>>
        ELSE in.argv[i]]]

\* 162 characters that are not all digits 0..3: one run with '7' for every
\* '3', one with '/' for every '0', and a command line that main rejects
SymInputs ==
    {WithSymbol(Input(Scenario(1, WSPR_LEN, 1, -500000, FALSE, 3, FALSE)), CHAR_ZERO + 3, CHAR_ZERO + 7),
     WithSymbol(Input(Scenario(1, WSPR_LEN, 0, 0, FALSE, 2, FALSE)), CHAR_ZERO, CHAR_ZERO - 1),
     Input(Scenario(0, WSPR_LEN, 0, 0, FALSE, 2, FALSE))}

\* wall-clock seconds the callback may read
SecSet == {60, 121}

\* no function is applied on its own in a run of the program
CalcNone == [op |-> "none", args |-> <<>>, out |-> <<>>]

HistInit ==
    [ntx |-> 0, nsym |-> 0, ntxs |-> 0, phsum |-> 0, maxrd |-> -1, called |-> FALSE,
     call |-> [len |-> 0, sec |-> 0, pre_on |-> 0, accepted |-> FALSE,
               started |-> FALSE, modes |-> <<>>, entry |-> LoopEntry(TxZero)]]

InitWith(inputs) ==
    /\ pc = "parse"
    /\ \E in \in inputs : argv = in.argv /\ dev = in.dev
    /\ conf = ConfInit
    /\ fl = "null"
    /\ streaming = FALSE
    /\ tx = TxZero
    /\ fldata = FlDataInit
    /\ h = HistInit
    /\ calc = CalcNone
    /\ written = {}

Init == InitWith(BadInputs \cup RunInputs \cup {NoArgs})

InitBand == InitWith(BandInputs)

InitLive == InitWith(LiveInputs)

InitSym == InitWith(SymInputs)

----------------------------------------------------------------------------
(* main *)

\* the process has exited: its memory is gone
Exited ==
    /\ pc' = "done"
    /\ fl' = "null"
    /\ streaming' = FALSE
    /\ tx' = TxZero
    /\ fldata' = FlDataInit
    /\ h' = HistInit
    /\ written' = {}

\* if (argc <= 1) FAIL(CONFIGHELP); the parameter loop
MainParse ==
    /\ pc = "parse"
    /\ LET r == ParseArgs(conf, argv, 1)
       IN  IF Len(argv) = 0
           THEN Exited /\ conf' = conf
           ELSE IF r.unknown
           THEN Exited /\ conf' = r.conf
           ELSE /\ pc' = "validate"
                /\ conf' = r.conf
                /\ UNCHANGED <<fl, streaming, tx, fldata, h, written>>
    /\ UNCHANGED <<argv, dev, calc>>

\* the checks of the symbol count and of the number of frequencies
MainValidate ==
    /\ pc = "validate"
    /\ IF ConfRejected(conf)
       THEN Exited
       ELSE pc' = "open" /\ UNCHANGED <<fl, streaming, tx, fldata, h, written>>
    /\ UNCHANGED <<argv, conf, dev, calc>>

\* signal(SIGINT, sighandler); fl2k_open(&fl, conf->id)
MainOpen ==
    /\ pc = "open"
    /\ \E ok \in BOOLEAN :
         IF ok
         THEN pc' = "start_tx" /\ fl' = "open" /\ UNCHANGED <<streaming, tx, fldata, h, written>>
         ELSE Exited
    /\ UNCHANGED <<argv, conf, dev, calc>>

\* fl2k_start_tx(fl, tx_callback, tx, 2)
MainStartTx ==
    /\ pc = "start_tx"
    /\ \E ok \in BOOLEAN :
         IF ok
         THEN pc' = "set_rate" /\ streaming' = TRUE /\ UNCHANGED <<fl, tx, fldata, h, written>>
         ELSE Exited
    /\ UNCHANGED <<argv, conf, dev, calc>>

\* fl2k_set_sample_rate(fl, (uint32_t)conf->fs)
MainSetSampleRate ==
    /\ pc = "set_rate"
    /\ \E ok \in BOOLEAN :
         IF ok
         THEN pc' = "init" /\ UNCHANGED <<fl, streaming, tx, fldata, h, written>>
         ELSE Exited
    /\ UNCHANGED <<argv, conf, dev, calc>>

\* fs_r = fl2k_get_sample_rate(fl); conf->fs_exact = ...; tx_init(tx, conf)
\* Here the stores of tx_init take effect in program order, tx->initialized
\* last: a callback that runs while tx_init does finds initialized = 0
\* (TxCallback is enabled at this position and takes the first early return).
\* SpecRace below has the other orders.
MainTxInit ==
    /\ pc = "init"
    /\ LET c == [conf EXCEPT !.fs_exact = FsExact(conf.ppm, dev.rate)]
       IN  conf' = c /\ tx' = tx_init(tx, c)
    /\ pc' = "running"
    /\ written' = InitStores
    /\ UNCHANGED <<argv, dev, fl, streaming, fldata, h, calc>>

\* SIGINT: running = 0, pause() returns; fl2k_stop_tx, fl2k_close, return
MainShutdown ==
    /\ pc = "running"
    /\ Exited
    /\ UNCHANGED <<argv, conf, dev, calc>>

----------------------------------------------------------------------------
(* the device layer invokes the callback *)

\* the clock reaches second 1 of a window only MaxTx times more than the
\* frequency list is long
StartsLeft == h.ntx < tx.wspr_nfreqs + MaxTx

\* one invocation with len samples requested at wall-clock second sec
CallbackCall(len, sec) ==
    IF Rejected(tx, len)
    THEN /\ tx' = tx
         /\ fldata' = [FlDataInit EXCEPT !.len = len]
         /\ h' = [h EXCEPT !.called = TRUE,
                           !.call = [len |-> len, sec |-> sec, pre_on |-> tx.wspr_on,
                                     accepted |-> FALSE, started |-> FALSE,
                                     modes |-> <<>>, entry |-> LoopEntry(TxZero)]]
    ELSE \E r \in {tx_callback(tx, h, sec)} :
             /\ tx' = r.tx
             /\ fldata' = [len |-> len, sampletype_signed |-> 0, r_buf |-> 0,
                           g_buf |-> FL2K_BUF_LEN, b_buf |-> 2 * FL2K_BUF_LEN]
             /\ h' = [ntx |-> IF r.started THEN h.ntx + 1 ELSE h.ntx,
                      nsym |-> r.nsym, ntxs |-> r.ntxs, phsum |-> r.phsum,
                      maxrd |-> r.maxrd,
                      called |-> TRUE,
                      call |-> [len |-> len, sec |-> sec, pre_on |-> tx.wspr_on,
                                accepted |-> TRUE, started |-> r.started,
                                modes |-> r.modes, entry |-> r.entry]]

TxCallback ==
    /\ streaming
    /\ \E len \in dev.lens, sec \in SecSet :
         /\ (~Rejected(tx, len) /\ StartCondition(tx, sec)) => StartsLeft
         /\ CallbackCall(len, sec)
    /\ UNCHANGED <<pc, argv, conf, dev, fl, streaming, calc, written>>

Next ==
    \/ MainParse
    \/ MainValidate
    \/ MainOpen
    \/ MainStartTx
    \/ MainSetSampleRate
    \/ MainTxInit
    \/ MainShutdown
    \/ TxCallback

Spec == Init /\ [][Next]_vars

\* the rotation through long frequency lists
SpecBand == InitBand /\ [][Next]_vars

\* neither the process nor the device layer stops while a step is possible:
\* while main waits in pause() the callback keeps being invoked
SpecLive == InitLive /\ [][Next]_vars /\ WF_vars(Next)

\* symbol strings with other characters than the digits 0..3
SpecSym == InitSym /\ [][Next]_vars

----------------------------------------------------------------------------
(* tx_init and tx_callback on two threads *)

\* fl2k_start_tx has registered tx_callback before tx_init runs, and the
\* device layer calls it on a thread of its own.  tx1 is shared without a
\* lock, an atomic or a barrier (initialized is a plain char), so the
\* compiler and the processor keep the program order of tx_init's stores
\* only as the storing thread sees it: the stores reach the memory the
\* callback reads in any order.  The table sine and the list wspr_freqs are
\* each taken as one store.

\* one run at a symbol step of about 0.97 turns per sample, one command line
\* that main rejects
RaceInputs ==
    {Input(Scenario(1, WSPR_LEN, 1, -500000, FALSE, 3, FALSE)),
     Input(Scenario(0, WSPR_LEN, 0, 0, FALSE, 2, FALSE))}

InitRace == InitWith(RaceInputs)

\* fs_r = fl2k_get_sample_rate(fl); conf->fs_exact = ...; the call of tx_init
MainTxInitEnter ==
    /\ pc = "init"
    /\ conf' = [conf EXCEPT !.fs_exact = FsExact(conf.ppm, dev.rate)]
    /\ pc' = "tx_init"
    /\ UNCHANGED <<argv, dev, fl, streaming, tx, fldata, h, calc, written>>

\* the store to one member of tx1 reaches memory
TxInitStore ==
    /\ pc = "tx_init"
    /\ \E m \in InitStores \ written :
         /\ tx' = [tx EXCEPT ![m] = tx_init(tx, conf)[m]]
         /\ written' = written \cup {m}
    /\ UNCHANGED <<pc, argv, conf, dev, fl, streaming, fldata, h, calc>>

\* tx_init has returned and all its stores have reached memory: pause()
MainTxInitReturn ==
    /\ pc = "tx_init"
    /\ written = InitStores
    /\ pc' = "running"
    /\ UNCHANGED <<argv, conf, dev, fl, streaming, tx, fldata, h, calc, written>>

\* an accepted callback that writes through tx->buf (b[0] = ...) or, at a
\* start, reads tx->wspr_data[0] while the pointer is still null
NullAccess(t, w, len, sec) ==
    /\ ~Rejected(t, len)
    /\ \/ "buf" \notin w
       \/ StartCondition(t, sec) /\ "wspr_data" \notin w

\* a start that computes (tx->wspr_freq_i + 1) % tx->wspr_nfreqs while
\* wspr_nfreqs is still 0
DivideByZero(t, len, sec) ==
    ~Rejected(t, len) /\ StartCondition(t, sec) /\ t.wspr_nfreqs = 0

\* A callback on the device layer's thread at any moment of main.  A null
\* access ends the process with a signal; a division by zero either does the
\* same (x86) or goes on with the remainder NextBand gives.  The device asks
\* for a buffer once per FL2K_BUF_LEN samples and tx_init takes a small part
\* of that time: no more than one callback gets past the checks while
\* tx_init runs.
TxCallbackRace ==
    /\ streaming
    /\ \E len \in dev.lens, sec \in SecSet :
         /\ (~Rejected(tx, len) /\ StartCondition(tx, sec)) => StartsLeft
         /\ (~Rejected(tx, len) /\ pc = "tx_init") => ~h.call.accepted
         /\ \/ /\ NullAccess(tx, written, len, sec) \/ DivideByZero(tx, len, sec)
               /\ Exited
               /\ UNCHANGED <<argv, conf, dev, calc>>
            \/ /\ ~NullAccess(tx, written, len, sec)
               /\ CallbackCall(len, sec)
               /\ UNCHANGED <<pc, argv, conf, dev, fl, streaming, calc, written>>

NextRace ==
    \/ MainParse
    \/ MainValidate
    \/ MainOpen
    \/ MainStartTx
    \/ MainSetSampleRate
    \/ MainTxInitEnter
    \/ TxInitStore
    \/ MainTxInitReturn
    \/ MainShutdown
    \/ TxCallbackRace

SpecRace == InitRace /\ [][NextRace]_vars

----------------------------------------------------------------------------
(* The emitter's functions applied on their own *)

\* sample rates the device can report (a uint32_t), corrections in ppm and
\* frequencies in sixteenths of a hertz below half the sample rate
HzInputs ==
    {[op |-> "hz", args |-> <<hn, 16, fs_r, ppm>>, out |-> <<>>] :
        hn \in 1..(8 * UINT32), fs_r \in 1..(UINT32 - 1),
        ppm \in {-500000, -250000, 0, 450000}}

\* the exact sample rate of an "hz" calculation, as main computes it
CalcFs == FsExact(calc.args[4], calc.args[3])

\* the frequency of an "hz" calculation
CalcHzArg == <<calc.args[1], calc.args[2]>>

\* tx_hz_to_freq(tx, hz) with tx->fs = conf->fs_exact
CalcHz ==
    /\ calc.op = "hz" /\ calc.out = <<>>
    /\ calc' = [calc EXCEPT !.out = <<tx_hz_to_freq(CalcFs, CalcHzArg)>>]
    /\ UNCHANGED <<pc, argv, conf, fl, streaming, dev, tx, fldata, h, written>>

\* every symbol phase and every symbol step of a word
WrapInputs ==
    {[op |-> "wrap", args |-> <<sp, step>>, out |-> <<>>] :
        sp \in 0..(WORD - 1), step \in 0..(WORD - 1)}

\* if ((wspr_symphase = sp + wspr_step) < sp): the new symbol phase and
\* whether the test fired
CalcWrap ==
    /\ calc.op = "wrap" /\ calc.out = <<>>
    /\ calc' = [calc EXCEPT !.out =
                  <<SymphaseNext(calc.args[1], calc.args[2]),
                    IF SymbolWrapped(calc.args[1], calc.args[2]) THEN 1 ELSE 0>>]
    /\ UNCHANGED <<pc, argv, conf, fl, streaming, dev, tx, fldata, h, written>>

\* every state of the dither generator
DitherInputs ==
    {[op |-> "dither", args |-> <<lcg>>, out |-> <<>>] : lcg \in 0..(WORD - 1)}

\* the draw r with its bit b inverted
FlipBit(r, b) ==
    IF ShiftRight(r, b) % 2 = 1 THEN r - Pow2(b) ELSE r + Pow2(b)

\* the bits of the draw that the phase dither offset depends on
PhaseDitherBits ==
    {b \in 0..(RndBits - 1) :
        \E r \in 0..(UINT32 - 1) : PhaseDither(FlipBit(r, b)) # PhaseDither(r)}

\* the bits of the draw that the amplitude dither of channel ch depends on
AmpDitherBits(ch) ==
    {b \in 0..(RndBits - 1) :
        \E r \in 0..(UINT32 - 1) : AmpDither(FlipBit(r, b), ch) # AmpDither(r, ch)}

\* one draw and what a sample makes of it: rnd, the phase dither offset, the
\* amplitude dither of channels 0, 1, 2, and the bits of the draw each
\* depends on
CalcDither ==
    /\ calc.op = "dither" /\ calc.out = <<>>
    /\ LET rnd == RndOf(LcgNext(calc.args[1]))
       IN  calc' = [calc EXCEPT !.out =
                     <<rnd, PhaseDither(rnd),
                       AmpDither(rnd, 0), AmpDither(rnd, 1), AmpDither(rnd, 2),
                       PhaseDitherBits, AmpDitherBits(0), AmpDitherBits(1), AmpDitherBits(2)>>]
    /\ UNCHANGED <<pc, argv, conf, fl, streaming, dev, tx, fldata, h, written>>

\* every table index with every amplitude dither value of 8 bits
QuantInputs ==
    {[op |-> "quant", args |-> <<i, d>>, out |-> <<>>] :
        i \in 0..(SINE_SIZE - 1), d \in 0..DITHER_MASK}

\* out = tx->sine[..]; out += dither; b[..] = (uint16_t)(0x7F00 + out) >> 8:
\* the table entry, the dithered int16_t and the output code
CalcQuant ==
    /\ calc.op = "quant" /\ calc.out = <<>>
    /\ LET s == SineEntry(calc.args[1])
           out == ToInt16(s + calc.args[2])
       IN  calc' = [calc EXCEPT !.out = <<s, out, Quantize(out)>>]
    /\ UNCHANGED <<pc, argv, conf, fl, streaming, dev, tx, fldata, h, written>>

CalcInputs == HzInputs \cup WrapInputs \cup DitherInputs \cup QuantInputs

\* no program runs: one function is applied to one set of arguments
InitCalc ==
    /\ pc = "done"
    /\ argv = <<>>
    /\ dev = NoArgs.dev
    /\ conf = ConfInit
    /\ fl = "null"
    /\ streaming = FALSE
    /\ tx = TxZero
    /\ fldata = FlDataInit
    /\ h = HistInit
    /\ calc \in CalcInputs
    /\ written = {}

NextCalc ==
    \/ CalcHz
    \/ CalcWrap
    \/ CalcDither
    \/ CalcQuant

SpecCalc == InitCalc /\ [][NextCalc]_vars

----------------------------------------------------------------------------
(* Properties *)

\* the number of f parameters on the command line
GivenFreqs == Cardinality({i \in 1..Len(argv) : argv[i][1] = "f"})

\* the length of the symbol string on the command line, 0 when none is given
GivenSymbols ==
    LET S == {i \in 1..Len(argv) : argv[i][1] = "s"}
    IN  IF S = {} THEN 0 ELSE Len(argv[CHOOSE i \in S : \A j \in S : j <= i][2])

\* every parameter name on the command line is known
AllKnown == \A i \in 1..Len(argv) : argv[i][1] \in KnownParams

\* the device was never opened, no callback registered, tx never initialized
NeverStarted == fl = "null" /\ ~streaming /\ tx.initialized = 0

\* a step of the callback (every step of main changes pc)
CallbackStep == pc' = pc /\ vars' # vars

\* C1: between a start and the return to IDLE the symbol index advances
\* exactly 162 times: while transmitting fewer than 162 advances have been
\* made, and the transmitter is idle again exactly when the 162nd has.
C1_FrameLength ==
    h.ntx > 0 =>
        /\ tx.wspr_i = h.nsym
        /\ (tx.wspr_on # 0 => h.nsym < WSPR_LEN)
        /\ (tx.wspr_on = 0 => h.nsym = WSPR_LEN)

C1_Witness == h.ntx > 0 /\ tx.wspr_on = 0 /\ tx.wspr_i = WSPR_LEN /\ h.nsym = WSPR_LEN

\* C2: while the device layer keeps invoking the callback with the negotiated
\* buffer size, a transmission with symbol_step > 0 reaches its end (or the
\* process is stopped first).
C2_EventuallyIdle ==
    (tx.wspr_on # 0 /\ tx.wspr_step > 0)
        ~> (pc = "done" \/ (tx.wspr_on = 0 /\ h.nsym = WSPR_LEN))

C2_Witness == tx.wspr_on # 0 /\ tx.wspr_step > 0 /\ h.nsym > WSPR_LEN \div 2

C4_BandRotation ==
    tx.initialized = 1 =>
        LET k == tx.wspr_nfreqs
        IN  /\ k \in 1..MAX_FREQS
            /\ tx.wspr_freq_i \in 0..(k - 1)
            /\ tx.wspr_freq_i = h.ntx % k
            /\ h.ntx > 0 =>
                  tx.wspr_freq = tx_hz_to_freq(conf.fs_exact, conf.f[((h.ntx - 1) % k) + 1])

C4_Witness ==
    tx.wspr_nfreqs = MAX_FREQS /\ h.ntx = MAX_FREQS + 1 /\ tx.wspr_freq_i = 1
    /\ tx.wspr_freq = tx.wspr_freqs[0] /\ tx.wspr_freqs[0] # tx.wspr_freqs[MAX_FREQS - 1]

\* C5: with the swap flag set the phase shifts are the configured pair after
\* an even number of starts and the exchanged pair after an odd number;
\* without it they are the configured pair always.
C5_SwapAlternates ==
    tx.initialized = 1 =>
        LET a == DegToPhase(conf.p1)
            b == DegToPhase(conf.p2)
        IN  <<tx.phs1, tx.phs2>> =
                IF tx.ps = 1 /\ h.ntx % 2 = 1 THEN <<b, a>> ELSE <<a, b>>

C5_Witness == tx.ps = 1 /\ h.ntx = 2 /\ tx.phs1 # tx.phs2 /\ tx.phs1 = DegToPhase(conf.p1)

\* C6: every invocation that has returned has set the three channel buffers
\* and written every requested sample position.
C6_EveryCallFills ==
    h.called =>
        /\ h.call.accepted
        /\ Len(h.call.modes) = h.call.len
        /\ fldata.r_buf # -1 /\ fldata.g_buf # -1 /\ fldata.b_buf # -1

\* C7: as long as no transmission has started, the channel buffers hold
\* nothing but the code 0x80, and all of it after an accepted invocation.
C7_IdleOutput ==
    h.ntx = 0 =>
        /\ \A k \in DOMAIN tx.buf : tx.buf[k] \in {-1, IDLE_CODE}
        /\ h.call.accepted => \A k \in DOMAIN tx.buf : tx.buf[k] = IDLE_CODE

C7_Witness ==
    /\ h.ntx = 0 /\ h.call.accepted /\ DOMAIN tx.buf = 0..(3 * FL2K_BUF_LEN - 1)
    /\ \A k \in DOMAIN tx.buf : tx.buf[k] = IDLE_CODE

\* C8: with no frequency or a symbol string not 162 long the device is never
\* opened, the callback never registered and tx never initialized; with at
\* least one frequency and 162 symbols the checks pass on to fl2k_open.
C8_ConfigChecks ==
    /\ []((GivenFreqs = 0 \/ GivenSymbols # WSPR_LEN) => NeverStarted)
    /\ [][(pc = "validate" /\ GivenFreqs > 0 /\ GivenSymbols = WSPR_LEN)
              => pc' = "open"]_vars

C8_Witness ==
    pc = "done" /\ AllKnown /\ conf.nf > 0 /\ Len(conf.s) = WSPR_LEN + 1 /\ NeverStarted

\* C9: a command line with more than 16 frequencies never gets the device
\* opened, the callback registered or tx initialized.
C9_TooManyFreqsRejected == GivenFreqs > MAX_FREQS => NeverStarted

\* C10: the samples emitted during a completed transmission are 162 symbol
\* periods of 2^64 / symbol_step samples to within one period, that is
\* | N * symbol_step - 162 * 2^64 | <= 2^64.
C10_SampleCount ==
    (h.ntx > 0 /\ tx.wspr_on = 0 /\ tx.wspr_step > 0) =>
        LET d == h.ntxs * tx.wspr_step - WSPR_LEN * WORD
        IN  -WORD <= d /\ d <= WORD

C10_Witness ==
    h.ntx > 0 /\ tx.wspr_on = 0 /\ h.ntxs * tx.wspr_step > WSPR_LEN * WORD

\* the oscillator and the symbol scheduler of a transmitter
Scheduler(t) ==
    [phase |-> t.phase, freq |-> t.freq, wspr_symphase |-> t.wspr_symphase,
     wspr_i |-> t.wspr_i, wspr_on |-> t.wspr_on]

\* C11: the state is carried from one invocation to the next: the oscillator
\* phase is the sum modulo 2^64 of the freq values in force at the samples
\* transmitted so far, however they were split into buffers; tx changes only
\* in a callback, in tx_init or at exit; and an accepted callback leaves the
\* oscillator and the scheduler where FL2K_BUF_LEN steps of the per-sample
\* machine without local copies leave them.
C11_StateCarried ==
    /\ [](h.ntx > 0 => tx.phase = h.phsum)
    /\ [][tx' # tx => (CallbackStep /\ h'.call.accepted) \/ pc = "init" \/ pc' = "done"]_vars
    /\ [][(CallbackStep /\ h'.call.accepted) =>
             LET t1 == IF h'.call.started THEN StartTransmission(tx) ELSE tx
             IN  Scheduler(tx') = Scheduler(DirectLoop(t1, FL2K_BUF_LEN))]_vars

\* a transmission that lasted several callbacks and changed freq on the way
C11_Witness ==
    /\ tx.wspr_on # 0 /\ h.call.accepted /\ ~h.call.started /\ h.call.pre_on # 0
    /\ h.nsym > 2 /\ h.ntxs > 2 * FL2K_BUF_LEN
    /\ tx.phase = h.phsum /\ tx.phase # (h.ntxs * tx.freq) % WORD

\* fs * freq - hz * 2^64 of an "hz" calculation, times the denominators of
\* fs and hz: the error of the phase advance over fs samples
HzError ==
    CalcFs[1] * calc.out[1] * CalcHzArg[2] - CalcHzArg[1] * WORD * CalcFs[2]

\* C12: for hz below half the sample rate, fs samples at the increment
\* tx_hz_to_freq(fs, hz) advance the phase by hz * 2^64 to within 2^(64-S).
C12_PhaseAdvance ==
    (calc.op = "hz" /\ calc.out # <<>> /\ 2 * CalcHzArg[1] * CalcFs[2] < CalcFs[1] * CalcHzArg[2]) =>
        LET tol == Pow2(WordBits - SINE_SHIFT) * CalcFs[2] * CalcHzArg[2]
        IN  -tol <= HzError /\ HzError <= tol

\* an inexact increment: the advance falls short by more than a third of the tolerance
C12_Witness ==
    /\ calc.op = "hz" /\ calc.out # <<>>
    /\ 2 * CalcHzArg[1] * CalcFs[2] < CalcFs[1] * CalcHzArg[2]
    /\ calc.out[1] > 0
    /\ -3 * HzError > Pow2(WordBits - SINE_SHIFT) * CalcFs[2] * CalcHzArg[2]

\* C13: a callback that starts a transmission enters its sample loop, in the
\* same invocation and with the first sample of the buffer still to come, with
\* symbol index 0, symbol phase 0, oscillator phase 0, the base frequency
\* taken from the list at the band index the callback found, freq = base +
\* symbol_step * symbol 0 modulo 2^64, and the transmitter active; the first
\* sample of that buffer is transmitted from this state.
C13_StartResets ==
    [][(CallbackStep /\ h'.call.started) =>
          LET e == h'.call.entry
          IN  /\ e.wspr_i = 0 /\ e.wspr_symphase = 0 /\ e.phase = 0
              /\ e.wspr_freq = tx.wspr_freqs[tx.wspr_freq_i]
              /\ e.freq = (e.wspr_freq
                            + tx.wspr_step * (tx.wspr_data[1] - CHAR_ZERO)) % WORD
              /\ e.wspr_on = 1
              /\ h'.call.modes[1] = 1]_vars

\* a second start, on the second band of two
C13_Witness ==
    /\ h.call.started /\ h.ntx = 2 /\ h.call.entry.phase = 0 /\ h.call.entry.wspr_i = 0
    /\ h.call.entry.wspr_freq_i = 0 /\ tx.wspr_nfreqs = 2
    /\ h.call.entry.wspr_freq = tx.wspr_freqs[1] /\ h.call.entry.freq # 0

\* C14 as stated: in every reachable state 0 <= symbol_index < 162.
C14_Original == tx.wspr_i \in 0..(WSPR_LEN - 1)

\* C14 amended: in every reachable state 0 <= symbol_index <= 162; the index
\* is below 162 whenever the transmitter is active, and it is 162 only while
\* the transmitter is idle after a transmission.
C14_IndexRange ==
    /\ tx.wspr_i \in 0..WSPR_LEN
    /\ tx.wspr_on # 0 => tx.wspr_i < WSPR_LEN
    /\ tx.wspr_i = WSPR_LEN => (tx.wspr_on = 0 /\ h.ntx > 0)

\* an idle callback after a completed transmission: the index is still 162
C14_Witness ==
    /\ tx.wspr_i = WSPR_LEN /\ tx.wspr_on = 0
    /\ h.call.accepted /\ h.call.pre_on = 0 /\ ~h.call.started

\* C15: whenever the transmitter is active, for every configuration that
\* startup accepted, freq is base_freq + symbol_step * v modulo 2^64 with v
\* the value of the symbol at symbol_index, one of 0, 1, 2, 3.
C15_FreqFromSymbol ==
    tx.wspr_on # 0 =>
        \E v \in 0..3 :
            /\ CharAt(tx.wspr_data, tx.wspr_i) = CHAR_ZERO + v
            /\ tx.freq = (tx.wspr_freq + tx.wspr_step * v) % WORD

\* the local copies tx_callback takes of an idle transmitter
IdleLocals ==
    [tx_phase |-> tx.phase, tx_freq |-> tx.freq, wspr_symphase |-> tx.wspr_symphase,
     lcg |-> tx.lcg, wspr_on |-> 0, wspr_i |-> tx.wspr_i, buf |-> tx.buf,
     nsym |-> h.nsym, ntxs |-> h.ntxs, phsum |-> h.phsum, maxrd |-> h.maxrd,
     modes |-> <<>>]

\* C16: a sample processed while idle changes the dither generator state and
\* nothing else of the state: in every state with the transmitter idle, one
\* pass of the sample loop at any position leaves the local copies and the
\* symbol index as they were and advances lcg; and a callback that is idle
\* throughout leaves every member of tx but lcg and the output buffer as it
\* was (phase, freq, symbol phase, symbol index, base frequency, band index,
\* both phase shifts).
C16_IdleFrame ==
    /\ []((tx.initialized = 1 /\ tx.wspr_on = 0) =>
            \A i \in 0..(FL2K_BUF_LEN - 1) :
                LET s == SampleStep(tx, IdleLocals, i)
                IN  /\ s.lcg = LcgNext(tx.lcg)
                    /\ s = [IdleLocals EXCEPT !.lcg = s.lcg, !.buf = s.buf, !.modes = <<0>>])
    /\ [][(CallbackStep /\ h'.call.accepted /\ h'.call.pre_on = 0 /\ ~h'.call.started) =>
             /\ tx' = [tx EXCEPT !.lcg = tx'.lcg, !.buf = tx'.buf]
             /\ tx'.lcg # tx.lcg]_vars

\* an idle callback after a transmission, with the oscillator stopped at a
\* phase and a freq that are not 0
C16_Witness ==
    /\ h.call.accepted /\ h.call.pre_on = 0 /\ ~h.call.started /\ h.ntx > 0
    /\ tx.wspr_on = 0 /\ tx.phase # 0 /\ tx.freq # 0 /\ tx.wspr_symphase # 0
    /\ \A i \in 1..FL2K_BUF_LEN : h.call.modes[i] = 0

\* C17: for every symbol phase and every symbol step in [0, 2^64) the
\* boundary test fires exactly when the unwrapped sum is at least 2^64; it
\* fires when the sum wraps to exactly 0 and never when the step is 0.
C17_WrapTest ==
    (calc.op = "wrap" /\ calc.out # <<>>) =>
        LET sum == calc.args[1] + calc.args[2]
        IN  /\ calc.out[2] = 1 <=> sum >= WORD
            /\ calc.out[1] = IF sum >= WORD THEN sum - WORD ELSE sum
            /\ sum = WORD => (calc.out[1] = 0 /\ calc.out[2] = 1)
            /\ calc.args[2] = 0 => calc.out[2] = 0

\* a sum that wraps to exactly 0
C17_Witness ==
    /\ calc.op = "wrap" /\ calc.out = <<0, 1>>
    /\ calc.args[1] > 0 /\ calc.args[1] + calc.args[2] = WORD

\* C18: the phase dither offset is the draw itself placed below the table
\* resolution, no bit lost: offset = rnd * 2^(64-32-S), in [0, 2^(64-S)).
C18_DitherKeepsBits ==
    (calc.op = "dither" /\ calc.out # <<>>) =>
        /\ calc.out[2] = calc.out[1] * Pow2(WordBits - RndBits - SINE_SHIFT)
        /\ calc.out[2] \in 0..(Pow2(WordBits - SINE_SHIFT) - 1)

\* C19: the three amplitude dither fields and the phase dither field occupy
\* pairwise disjoint bits of the draw.
C19_FieldsDisjoint ==
    (calc.op = "dither" /\ calc.out # <<>>) =>
        \A i, j \in 6..9 : i # j => calc.out[i] \cap calc.out[j] = {}

\* C20: for every table entry and every 8-bit dither value the dithered value
\* fits in an int16_t and 0x7F00 + entry + dither lies in [0, 65535], so the
\* output code is the top byte of the sum that did not wrap.
C20_NoWrap ==
    (calc.op = "quant" /\ calc.out # <<>>) =>
        LET sum == calc.out[1] + calc.args[2]
        IN  /\ -32511 <= calc.out[1] /\ calc.out[1] <= 32511
            /\ -32768 <= sum /\ sum <= 32767
            /\ calc.out[2] = sum
            /\ 0 <= OUT_BIAS + sum /\ OUT_BIAS + sum <= 65535
            /\ calc.out[3] = (OUT_BIAS + sum) \div 256
            /\ calc.out[3] >= (OUT_BIAS + calc.out[1]) \div 256

\* the largest table entry with the largest dither value
C20_Witness ==
    /\ calc.op = "quant" /\ calc.out # <<>>
    /\ calc.args[2] = DITHER_MASK /\ calc.out[1] = 32511 /\ calc.out[3] = 254

\* the last callback was accepted and the transmission ended in it
EndedInLastCall ==
    h.call.accepted /\ h.call.modes[1] = 1 /\ h.nsym = WSPR_LEN

\* C21: when a transmission ends at sample position j of a buffer, the
\* positions before and at j were transmitted, every later position of that
\* buffer holds 0x80 on all three channels, and the active flag is written
\* back as false: the next invocation begins idle, and without a start it is
\* idle throughout.
C21_EndInsideBuffer ==
    /\ [](EndedInLastCall =>
            /\ tx.wspr_on = 0
            /\ \E j \in 1..FL2K_BUF_LEN :
                  \A i \in 1..FL2K_BUF_LEN :
                      IF i <= j
                      THEN h.call.modes[i] = 1
                      ELSE /\ h.call.modes[i] = 0
                           /\ tx.buf[i - 1] = IDLE_CODE
                           /\ tx.buf[FL2K_BUF_LEN + i - 1] = IDLE_CODE
                           /\ tx.buf[2 * FL2K_BUF_LEN + i - 1] = IDLE_CODE)
    /\ [][(EndedInLastCall /\ CallbackStep /\ h'.call.accepted) =>
             /\ h'.call.pre_on = 0
             /\ h'.call.entry.wspr_on = (IF h'.call.started THEN 1 ELSE 0)
             /\ ~h'.call.started => \A i \in 1..FL2K_BUF_LEN : h'.call.modes[i] = 0]_vars

\* a transmission that ended inside a buffer: the first position transmitted,
\* the last two idle
C21_Witness ==
    /\ EndedInLastCall /\ tx.wspr_on = 0
    /\ h.call.modes[FL2K_BUF_LEN - 1] = 0 /\ h.call.modes[FL2K_BUF_LEN] = 0
    /\ tx.buf[FL2K_BUF_LEN - 1] = IDLE_CODE /\ tx.buf[3 * FL2K_BUF_LEN - 1] = IDLE_CODE
    /\ tx.buf[0] # IDLE_CODE

\* C22: an invocation that finds the transmitter not initialized, or a sample
\* count other than the negotiated one, changes nothing: every member of tx
\* is as before (phase, freq, dither state, symbol phase, symbol index, active
\* flag, band index, phase shifts), no transmission is started even at a
\* second that is 1 modulo 120, and the three buffer references are not set.
C22_RejectedChangesNothing ==
    [][(CallbackStep /\ (tx.initialized = 0 \/ h'.call.len # FL2K_BUF_LEN)) =>
          /\ tx' = tx
          /\ ~h'.call.accepted /\ ~h'.call.started
          /\ h'.ntx = h.ntx /\ h'.nsym = h.nsym /\ h'.ntxs = h.ntxs
          /\ h'.call.modes = <<>>
          /\ fldata'.r_buf = -1 /\ fldata'.g_buf = -1 /\ fldata'.b_buf = -1]_vars

\* a call with a wrong sample count at second 121, the transmitter
\* initialized and idle: nothing started, no buffer set
C22_Witness ==
    /\ h.called /\ ~h.call.accepted /\ h.call.sec % WSPR_PERIOD = WSPR_SECOND
    /\ tx.initialized = 1 /\ h.call.len # FL2K_BUF_LEN /\ tx.wspr_on = 0
    /\ h.call.pre_on = 0 /\ fldata.r_buf = -1

\* C24: the symbol sequence is read only at indices in [0, 162): at index 0
\* by a start, at the incremented symbol index by a symbol boundary, and at
\* no index once the increment has reached 162.
C24_ReadsInRange ==
    /\ h.maxrd \in -1..(WSPR_LEN - 1)
    /\ h.ntx = 0 <=> h.maxrd = -1
    /\ (h.ntx > 0 /\ tx.wspr_on # 0) => h.maxrd >= tx.wspr_i
    /\ (h.ntx > 0 /\ tx.wspr_on = 0) => h.maxrd = WSPR_LEN - 1

\* a second transmission under way after a first one that read the sequence
\* up to its last symbol, index 161
C24_Witness ==
    h.ntx = 2 /\ tx.wspr_on # 0 /\ tx.wspr_i > 0 /\ h.maxrd = WSPR_LEN - 1

\* a callback of the two-thread run: main stays where it is, no store of
\* tx_init lands, and the history gets a new entry
RaceCallbackStep == pc' = pc /\ written' = written /\ h' # h

\* a callback of the two-thread run that ends the process with a signal
\* while main is in tx_init
RaceCallbackFault == pc = "tx_init" /\ pc' = "done"

====
